---- MODULE Spec2Model ----
(***************************************************************************)
(* NebulaDiary API (src/main.py, src/schemas.py): the entry endpoints over *)
(* the "entry" collection and the search proxy.                            *)
(*                                                                         *)
(* Values.  A JSON/Python value that may be None is a sequence: <<>> is    *)
(* None (or a key absent from a request body), <<v>> is the value v.       *)
(* Strings whose characters matter (ids, queries, dates, messages) are     *)
(* sequences of one-character strings.                                     *)
(***************************************************************************)
EXTENDS Integers, Sequences, FiniteSets, TLC

VARIABLES db, docs, nextId, resp, before, gone, fresh, pending

vars == <<db, docs, nextId, resp, before, gone, fresh, pending>>

None == <<>>

Some(v) == <<v>>

Min(a, b) == IF a <= b THEN a ELSE b

Max(a, b) == IF a >= b THEN a ELSE b

(***************************************************************************)
(* Bounds of the model.                                                    *)
(***************************************************************************)
\* POST /entries requests that reach the store in one behaviour
MaxPosts == 2

\* POST /entries requests on top of the pre-populated collection of SpecBulk
MaxBulkPosts == 2

\* items in one provider response
MaxItems == 2

\* longest failure text of an upstream error, beyond the truncation length
MaxErrExtra == 2

(***************************************************************************)
(* Identifiers.  The store assigns ObjectIds, modelled as the naturals     *)
(* 1, 2, ...; str(ObjectId) is its 24-digit lowercase hexadecimal form and *)
(* ObjectId(s) accepts exactly the strings of 24 hexadecimal digits.       *)
(***************************************************************************)
OidLen == 24

HexDigits == <<"0", "1", "2", "3", "4", "5", "6", "7",
               "8", "9", "a", "b", "c", "d", "e", "f">>

\* the hexadecimal digits of n, without leading zeros (none for 0)
RECURSIVE HexOf(_)
HexOf(n) ==
    IF n = 0 THEN <<>>
    ELSE Append(HexOf(n \div 16), HexDigits[(n % 16) + 1])

\* str(oid): the digits, zero-padded on the left to OidLen
StrOid(oid) ==
    LET h == HexOf(oid)
    IN  [i \in 1..(OidLen - Len(h)) |-> "0"] \o h

HexDigitVal ==
    [c \in {HexDigits[i] : i \in 1..16} |->
        (CHOOSE i \in 1..16 : HexDigits[i] = c) - 1]

IsHexDigit(c) == c \in DOMAIN HexDigitVal

\* the number the first n digits of s denote
RECURSIVE HexPrefixVal(_, _)
HexPrefixVal(s, n) ==
    IF n = 0 THEN 0
    ELSE 16 * HexPrefixVal(s, n - 1) + HexDigitVal[s[n]]

HexVal(s) == HexPrefixVal(s, Len(s))

\* ObjectId(s): Some(oid), or None when bson raises InvalidId
ObjectId(s) ==
    IF Len(s) = OidLen /\ \A i \in 1..Len(s) : IsHexDigit(s[i])
    THEN Some(HexVal(s))
    ELSE None

(***************************************************************************)
(* Entry schema (src/schemas.py) and the partial-update schema.            *)
(***************************************************************************)
MediaTypes == {"movie", "series", "anime"}

Statuses == {"Planned", "Watching", "Completed", "Dropped"}

YearMin == 1800

YearMax == 2100

RatingMin == 1

RatingMax == 5

EntryFields == {"title", "media_type", "year", "image", "external_id",
                "source", "status", "rating", "review"}

\* Entry(**body) validates: required fields present, enumerations and ranges
EntryValid(body) ==
    /\ body.title # None
    /\ body.media_type # None /\ body.media_type[1] \in MediaTypes
    /\ body.year = None \/ (body.year[1] >= YearMin /\ body.year[1] <= YearMax)
    /\ body.status = None \/ body.status[1] \in Statuses
    /\ body.rating = None
         \/ (body.rating[1] >= RatingMin /\ body.rating[1] <= RatingMax)

\* the validated model: status defaults to 'Planned'
Entry(body) ==
    [body EXCEPT !.status = IF body.status = None THEN Some("Planned")
                            ELSE body.status]

\* EntryUpdate(**body) validates: status is an enumerated value when given;
\* rating is any integer; fields the model does not declare are ignored
EntryUpdateValid(body) ==
    body.status = None \/ body.status[1] \in Statuses

EntryUpdate(body) ==
    [status |-> body.status, rating |-> body.rating, review |-> body.review]

\* payload.model_dump(), None values kept
ModelDumpAll(payload) == payload

\* payload.model_dump(exclude_none=True)
ModelDumpExcludeNone(payload) ==
    LET keys == {k \in DOMAIN payload : payload[k] # None}
    IN  [k \in keys |-> payload[k]]

(***************************************************************************)
(* Responses.  code 200 carries out; an error carries detail.  writes are  *)
(* the store writes the request issued, calls its outbound HTTP calls.     *)
(***************************************************************************)
Response(op, req, code, detail, out, writes) ==
    [op |-> op, req |-> req, code |-> code, detail |-> detail, out |-> out,
     writes |-> writes, calls |-> <<>>]

NoResponse == Response("none", <<>>, 0, "", <<>>, <<>>)

ValidationError(op, req) ==
    Response(op, req, 422, "validation error", <<>>, <<>>)

(***************************************************************************)
(* Document store adapter (module database) over the "entry" collection:   *)
(* docs is the collection in insertion order, each document a function     *)
(* from its keys to values.                                                *)
(***************************************************************************)
\* an equality filter: every key of filt is matched exactly
Matches(d, filt) ==
    \A k \in DOMAIN filt : k \in DOMAIN d /\ d[k] = Some(filt[k])

SelectDocs(ds, filt) == SelectSeq(ds, LAMBDA d : Matches(d, filt))

\* get_documents(collection, filter, limit): up to limit matching documents
get_documents(ds, filt, limit) ==
    LET m == SelectDocs(ds, filt)
    IN  SubSeq(m, 1, Min(limit, Len(m)))

\* the document create_document inserts for a payload, under a fresh _id
NewDoc(oid, payload) ==
    [k \in EntryFields \cup {"_id"} |->
        IF k = "_id" THEN oid ELSE payload[k]]

HasId(ds, oid) == \E i \in 1..Len(ds) : ds[i]["_id"] = oid

\* update_one({"_id": oid}, {"$set": updates})
SetFields(d, updates) ==
    [k \in DOMAIN d \cup DOMAIN updates |->
        IF k \in DOMAIN updates THEN updates[k] ELSE d[k]]

update_one(ds, oid, updates) ==
    [i \in 1..Len(ds) |->
        IF ds[i]["_id"] = oid THEN SetFields(ds[i], updates) ELSE ds[i]]

\* delete_one({"_id": oid})
delete_one(ds, oid) == SelectSeq(ds, LAMBDA d : d["_id"] # oid)

\* the document as stored, _id not renamed
serialize_doc_raw(doc) == doc

\* serialize_doc: _id leaves under the name id, as a string
serialize_doc(doc) ==
    IF DOMAIN doc = {} THEN doc
    ELSE IF "_id" \in DOMAIN doc
         THEN [k \in (DOMAIN doc \ {"_id"}) \cup {"id"} |->
                  IF k = "id" THEN StrOid(doc["_id"]) ELSE doc[k]]
         ELSE doc

(***************************************************************************)
(* Request inputs.                                                         *)
(***************************************************************************)
Body(title, media_type, year, status, rating) ==
    [title |-> title, media_type |-> media_type, year |-> year,
     image |-> None, external_id |-> None, source |-> None,
     status |-> status, rating |-> rating, review |-> None]

DuneBody == Body(Some("Dune"), Some("movie"), None, None, None)

AkiraBody ==
    [Body(Some("Akira"), Some("anime"), Some(YearMax), Some("Watching"),
          Some(RatingMax))
     EXCEPT !.image = Some("http://img/akira.jpg"),
            !.external_id = Some("47"), !.source = Some("jikan")]

ValidCreateBodies == {DuneBody, AkiraBody}

InvalidCreateBodies ==
    { [DuneBody EXCEPT !.title = None],
      [DuneBody EXCEPT !.media_type = Some("book")],
      [DuneBody EXCEPT !.year = Some(YearMin - 1)],
      [DuneBody EXCEPT !.year = Some(YearMax + 1)],
      [DuneBody EXCEPT !.status = Some("Paused")],
      [DuneBody EXCEPT !.rating = Some(RatingMin - 1)],
      [DuneBody EXCEPT !.rating = Some(RatingMax + 1)] }

CreateBodies == ValidCreateBodies \cup InvalidCreateBodies

\* PATCH bodies: extra holds the keys EntryUpdate does not declare
Patch(status, rating, review, extra) ==
    [status |-> status, rating |-> rating, review |-> review, extra |-> extra]

EmptyPatch == Patch(None, None, None, {})

UnknownOnlyPatch == Patch(None, None, None, {"title", "year"})

StatusReviewPatch == Patch(Some("Completed"), None, Some("ok"), {})

BadRatingPatch == Patch(None, Some(RatingMax + 1), None, {"title"})

BadStatusPatch == Patch(Some("Paused"), None, None, {})

PatchBodies == {EmptyPatch, UnknownOnlyPatch, StatusReviewPatch,
                BadRatingPatch, BadStatusPatch}

\* path parameters: the ids the store may assign, one it never assigns, and
\* two strings that are no ObjectId
MalformedIds == {<<"x", "y", "z">>, [StrOid(1) EXCEPT ![1] = "g"]}

IdStrings == {StrOid(i) : i \in 1..(MaxPosts + 1)} \cup MalformedIds

\* utcnow() as the handler reads it
Times == {7}

DefaultLimit == 100

\* query parameters of GET /entries: <<media_type, status>>
ListFilters ==
    { <<None, None>>, <<Some(""), Some("")>>, <<Some("movie"), None>>,
      <<None, Some("Planned")>>, <<Some("anime"), Some("Watching")>>,
      <<Some("movie"), Some("Watching")>> }

(***************************************************************************)
(* Handlers.  Each yields its response and the collection it leaves.       *)
(***************************************************************************)
Result(code, detail, out, writes, ds) ==
    [code |-> code, detail |-> detail, out |-> out, writes |-> writes,
     docs |-> ds]

\* create_document(collection, payload): fails when there is no store
\* connection, else inserts the payload under the fresh id oid
create_document(d, ds, oid, payload) ==
    IF d = None
    THEN [ok |-> FALSE, id |-> <<>>, docs |-> ds]
    ELSE [ok |-> TRUE, id |-> StrOid(oid),
          docs |-> Append(ds, NewDoc(oid, payload))]

\* create_document("entry", payload), then {"id": entry_id}
create_entry(d, ds, oid, payload) ==
    LET c == create_document(d, ds, oid, payload)
    IN  IF ~c.ok
        THEN Result(500, "Database not available", <<>>, <<>>, c.docs)
        ELSE Result(200, "", [id |-> c.id], <<"insert_one">>, c.docs)

\* Python truthiness of an optional query parameter
Truthy(p) == p # None /\ p[1] # ""

ListFilter(media_type, status) ==
    LET keys == (IF Truthy(media_type) THEN {"media_type"} ELSE {})
                    \cup (IF Truthy(status) THEN {"status"} ELSE {})
    IN  [k \in keys |-> IF k = "media_type" THEN media_type[1] ELSE status[1]]

list_entries(ds, media_type, status, limit) ==
    LET found == get_documents(ds, ListFilter(media_type, status), limit)
    IN  Result(200, "", [i \in 1..Len(found) |-> serialize_doc(found[i])],
               <<>>, ds)

\* update_entry with the empty-update return ahead of the availability check
update_entry_empty_first(d, ds, entry_id, payload, now) ==
    LET updates == ModelDumpExcludeNone(payload)
        stamped == [k \in DOMAIN updates \cup {"updated_at"} |->
                       IF k = "updated_at" THEN Some(now) ELSE updates[k]]
        oid == ObjectId(entry_id)
    IN  IF DOMAIN updates = {}
        THEN Result(200, "", [updated |-> FALSE], <<>>, ds)
        ELSE IF d = None
        THEN Result(500, "Database not available", <<>>, <<>>, ds)
        ELSE IF oid = None
        THEN Result(500, "Internal Server Error", <<>>, <<>>, ds)
        ELSE IF ~HasId(ds, oid[1])
        THEN Result(404, "Entry not found", <<>>, <<"update_one">>, ds)
        ELSE Result(200, "", [updated |-> TRUE], <<"update_one">>,
                    update_one(ds, oid[1], stamped))

update_entry(d, ds, entry_id, payload, now) ==
    IF d = None
    THEN Result(500, "Database not available", <<>>, <<>>, ds)
    ELSE LET updates == ModelDumpExcludeNone(payload)
             stamped == [k \in DOMAIN updates \cup {"updated_at"} |->
                            IF k = "updated_at" THEN Some(now) ELSE updates[k]]
             oid == ObjectId(entry_id)
         IN  IF DOMAIN updates = {}
             THEN Result(200, "", [updated |-> FALSE], <<>>, ds)
             ELSE IF oid = None
             THEN Result(500, "Internal Server Error", <<>>, <<>>, ds)
             ELSE IF ~HasId(ds, oid[1])
             THEN Result(404, "Entry not found", <<>>, <<"update_one">>, ds)
             ELSE Result(200, "", [updated |-> TRUE], <<"update_one">>,
                         update_one(ds, oid[1], stamped))

delete_entry(d, ds, entry_id) ==
    IF d = None
    THEN Result(500, "Database not available", <<>>, <<>>, ds)
    ELSE LET oid == ObjectId(entry_id)
         IN  IF oid = None
             THEN Result(500, "Internal Server Error", <<>>, <<>>, ds)
             ELSE IF ~HasId(ds, oid[1])
             THEN Result(404, "Entry not found", <<>>, <<"delete_one">>, ds)
             ELSE Result(200, "", [deleted |-> TRUE], <<"delete_one">>,
                         delete_one(ds, oid[1]))

Respond(op, req, r) == Response(op, req, r.code, r.detail, r.out, r.writes)

(***************************************************************************)
(* Actions: one request each.  before is the collection as the request     *)
(* found it, gone the ids deleted so far, fresh the entry the last         *)
(* successful POST created while no PATCH or DELETE has followed it.       *)
(***************************************************************************)
Init ==
    /\ db \in {None, Some("nebuladiary")}
    /\ docs = <<>>
    /\ nextId = 1
    /\ resp = NoResponse
    /\ before = <<>>
    /\ gone = {}
    /\ fresh = None
    /\ pending = None

\* POST /entries
CreateEntry(body) ==
    /\ before' = docs
    /\ IF ~EntryValid(body)
       THEN /\ resp' = ValidationError("create", body)
            /\ UNCHANGED <<docs, nextId, fresh>>
       ELSE LET r == create_entry(db, docs, nextId, Entry(body))
            IN  /\ resp' = Respond("create", body, r)
                /\ docs' = r.docs
                /\ nextId' = IF r.code = 200 THEN nextId + 1 ELSE nextId
                /\ fresh' = IF r.code = 200
                            THEN Some([id |-> r.out.id, body |-> body])
                            ELSE fresh
    /\ UNCHANGED <<db, gone, pending>>

\* GET /entries
ListEntries(media_type, status, limit) ==
    LET req == [media_type |-> media_type, status |-> status, limit |-> limit]
    IN  /\ before' = docs
        /\ \/ /\ db # None
              /\ resp' = Respond("list", req,
                                 list_entries(docs, media_type, status, limit))
           \/ /\ db = None
              /\ resp' \in {Respond("list", req, Result(200, "", <<>>, <<>>, docs)),
                            Response("list", req, 500, "Database not available",
                                     <<>>, <<>>)}
        /\ UNCHANGED <<db, docs, nextId, gone, fresh, pending>>

\* PATCH /entries/{entry_id}
UpdateEntry(entry_id, body, now) ==
    LET req == [entry_id |-> entry_id, body |-> body]
    IN  /\ before' = docs
        /\ IF ~EntryUpdateValid(body)
           THEN /\ resp' = ValidationError("update", req)
                /\ UNCHANGED docs
           ELSE LET r == update_entry(db, docs, entry_id, EntryUpdate(body), now)
                IN  /\ resp' = Respond("update", req, r)
                    /\ docs' = r.docs
        /\ fresh' = None
        /\ UNCHANGED <<db, nextId, gone, pending>>

\* DELETE /entries/{entry_id}
DeleteEntry(entry_id) ==
    LET req == [entry_id |-> entry_id]
        r == delete_entry(db, docs, entry_id)
    IN  /\ before' = docs
        /\ resp' = Respond("delete", req, r)
        /\ docs' = r.docs
        /\ gone' = IF r.code = 200 THEN gone \cup {entry_id} ELSE gone
        /\ fresh' = None
        /\ UNCHANGED <<db, nextId, pending>>

PostEntries ==
    \E body \in CreateBodies : nextId <= MaxPosts /\ CreateEntry(body)

GetEntries ==
    \E f \in ListFilters : ListEntries(f[1], f[2], DefaultLimit)

PatchEntry ==
    \E id \in IdStrings, body \in PatchBodies, now \in Times :
        UpdateEntry(id, body, now)

DeleteEntryById == \E id \in IdStrings : DeleteEntry(id)

Next == PostEntries \/ GetEntries \/ PatchEntry \/ DeleteEntryById

Spec == Init /\ [][Next]_vars

(***************************************************************************)
(* Search proxy: GET /search.  The handler trims the query, makes one      *)
(* outbound call to the provider of the media type and maps its items.     *)
(* pending holds the request whose outbound call is in flight.             *)
(***************************************************************************)
Whitespace == {" ", "\t", "\n"}

RECURSIVE LStrip(_)
LStrip(s) ==
    IF s # <<>> /\ Head(s) \in Whitespace THEN LStrip(Tail(s)) ELSE s

RECURSIVE RStrip(_)
RStrip(s) ==
    IF s # <<>> /\ s[Len(s)] \in Whitespace
    THEN RStrip(SubSeq(s, 1, Len(s) - 1))
    ELSE s

\* q, not trimmed
NoStrip(s) == s

\* q.strip()
Strip(s) == RStrip(LStrip(s))

\* xs[:n]
SliceTo(xs, n) ==
    IF n >= 0 THEN SubSeq(xs, 1, Min(n, Len(xs)))
    ELSE SubSeq(xs, 1, Max(0, Len(xs) + n))

\* a or b, for an optional integer, an optional string, an optional text
OrInt(a, b) == IF a = None \/ a[1] = 0 THEN b ELSE a

OrStr(a, b) == IF a = None \/ a[1] = "" THEN b ELSE a

OrText(a, b) == IF a = None \/ a[1] = <<>> THEN b ELSE a

Digits == <<"0", "1", "2", "3", "4", "5", "6", "7", "8", "9">>

RECURSIVE Dec(_)
Dec(n) ==
    IF n < 10 THEN <<Digits[n + 1]>>
    ELSE Append(Dec(n \div 10), Digits[(n % 10) + 1])

\* str(v) of an optional integer
Str(v) == IF v = None THEN <<"N", "o", "n", "e">> ELSE Dec(v[1])

\* item.get(key)
Get(f, key) == IF key \in DOMAIN f THEN f[key] ELSE None

JikanLimitCap == 10

ItunesLimitCap == 20

ErrorTextCap == 120

Provider(media_type) ==
    IF media_type = "anime" THEN "jikan"
    ELSE IF media_type = "series" THEN "tvmaze"
    ELSE "itunes"

\* the requests.get(...) of the branch: provider and the limit parameter sent
OutboundCall(q, media_type, limit) ==
    [provider |-> Provider(media_type), q |-> q,
     limit |-> IF media_type = "anime" THEN Some(Min(limit, JikanLimitCap))
               ELSE IF media_type = "series" THEN None
               ELSE Some(Min(limit, ItunesLimitCap))]

\* the list the branch iterates over, None when reading it raises
ItemsOf(media_type, json) ==
    IF media_type = "series"
    THEN (IF json.type = "list" THEN Some(json.items) ELSE None)
    ELSE IF json.type # "dict" THEN None
    ELSE IF json.key = (IF media_type = "anime" THEN "data" ELSE "results")
    THEN Some(json.items)
    ELSE Some(<<>>)

AnimeResult(f) ==
    [title |-> Get(f, "title"),
     year |-> OrInt(Get(f, "year"), Get(f, "aired.prop.from.year")),
     image |-> OrStr(Get(f, "images.jpg.large_image_url"),
                  Get(f, "images.jpg.image_url")),
     external_id |-> Str(Get(f, "mal_id")),
     source |-> "jikan", media_type |-> "anime"]

\* (date or "")[:4] or None
YearPrefix(date) ==
    LET text == OrText(date, Some(<<>>))[1]
        cut == SliceTo(text, 4)
    IN  IF cut = <<>> THEN None ELSE Some(cut)

SeriesResult(f) ==
    [title |-> Get(f, "show.name"),
     year |-> YearPrefix(Get(f, "show.premiered")),
     image |-> OrStr(Get(f, "show.image.original"), Get(f, "show.image.medium")),
     external_id |-> Str(Get(f, "show.id")),
     source |-> "tvmaze", media_type |-> "series"]

MovieResult(f) ==
    [title |-> Get(f, "trackName"),
     year |-> YearPrefix(Get(f, "releaseDate")),
     image |-> Get(f, "artworkUrl100"),
     external_id |-> Str(Get(f, "trackId")),
     source |-> "itunes", media_type |-> "movie"]

MapItem(media_type, item) ==
    IF media_type = "anime" THEN AnimeResult(item.f)
    ELSE IF media_type = "series" THEN SeriesResult(item.f)
    ELSE MovieResult(item.f)

\* "Search failed: "
SearchFailedPrefix ==
    <<"S", "e", "a", "r", "c", "h", " ", "f", "a", "i", "l", "e", "d", ":", " ">>

\* str(e), not truncated
NoTruncate(text) == text

\* str(e)[:120]
Truncate(text) == SliceTo(text, ErrorTextCap)

BadGateway(req, call, text) ==
    [Response("search", req, 502, SearchFailedPrefix \o Truncate(text),
              <<>>, <<>>)
     EXCEPT !.calls = <<call>>]

\* the try block once the provider has answered with upstream
search(req, call, upstream) ==
    IF upstream.kind # "ok" THEN BadGateway(req, call, upstream.text)
    ELSE LET items == ItemsOf(req.media_type, upstream.json)
         IN  IF items = None
             THEN BadGateway(req, call, upstream.text)
             ELSE LET used == SliceTo(items[1], req.limit)
                  IN  IF \E i \in 1..Len(used) : ~used[i].isdict
                      THEN BadGateway(req, call, upstream.text)
                      ELSE [Response("search", req, 200, "",
                                     [i \in 1..Len(used) |->
                                         MapItem(req.media_type, used[i])],
                                     <<>>)
                            EXCEPT !.calls = <<call>>]

\* GET /search up to the outbound call
SearchRequest(q, media_type, limit) ==
    LET req == [q |-> q, media_type |-> media_type, limit |-> limit,
                upstream |-> None]
    IN  /\ pending = None
        /\ before' = docs
        /\ IF media_type \notin MediaTypes
           THEN /\ resp' = ValidationError("search", req)
                /\ pending' = None
           ELSE IF Strip(q) = <<>>
           THEN /\ resp' = Response("search", req, 200, "", <<>>, <<>>)
                /\ pending' = None
           ELSE /\ resp' = NoResponse
                /\ pending' = Some([req |-> req,
                                    call |-> OutboundCall(Strip(q), media_type,
                                                          limit)])
        /\ UNCHANGED <<db, docs, nextId, gone, fresh>>

\* the provider answers (or the call fails) and the handler returns
SearchReturn(upstream) ==
    /\ pending # None
    /\ resp' = search([pending[1].req EXCEPT !.upstream = Some(upstream)],
                      pending[1].call, upstream)
    /\ pending' = None
    /\ UNCHANGED <<db, docs, nextId, before, gone, fresh>>

(***************************************************************************)
(* Search inputs.                                                          *)
(***************************************************************************)
Queries == {<<>>, <<" ", "\t">>, <<"d", "u", "n", "e">>,
            <<" ", "d", " ", "u", "\n">>}

SearchMediaTypes == MediaTypes \cup {"book"}

Limits == {-2, -1, 0, 1} \cup {MaxItems, MaxItems + 1}
            \cup {JikanLimitCap + 1, ItunesLimitCap + 1}

Item(f) == [isdict |-> TRUE, f |-> f]

\* a list element that is no JSON object
JunkItem == [isdict |-> FALSE, f |-> <<>>]

Key1(k1, v1) == [k \in {k1} |-> v1]

AnimeItems ==
    { Item([k \in {"title", "year", "images.jpg.large_image_url", "mal_id"} |->
              IF k = "title" THEN Some("Akira")
              ELSE IF k = "year" THEN Some(1988)
              ELSE IF k = "mal_id" THEN Some(47)
              ELSE Some("http://img/akira-large.jpg")]),
      Item([k \in {"title", "aired.prop.from.year", "images.jpg.image_url",
                   "mal_id"} |->
              IF k = "title" THEN Some("Monster")
              ELSE IF k = "mal_id" THEN Some(19)
              ELSE IF k = "aired.prop.from.year" THEN Some(2004)
              ELSE Some("http://img/monster.jpg")]) }

SeriesItems ==
    { Item([k \in {"show.name", "show.premiered", "show.image.original",
                   "show.id"} |->
              IF k = "show.name" THEN Some("Dune")
              ELSE IF k = "show.id" THEN Some(7)
              ELSE IF k = "show.premiered"
              THEN Some(<<"2", "0", "0", "1", "-", "0", "5", "-", "0", "2">>)
              ELSE Some("http://img/dune-original.jpg")]),
      Item([k \in {"show.name", "show.image.medium", "show.id"} |->
              IF k = "show.name" THEN Some("Dark")
              ELSE IF k = "show.id" THEN Some(120)
              ELSE Some("http://img/dark-medium.jpg")]) }

MovieItems ==
    { Item([k \in {"trackName", "releaseDate", "artworkUrl100", "trackId"} |->
              IF k = "trackName" THEN Some("Dune")
              ELSE IF k = "trackId" THEN Some(3)
              ELSE IF k = "releaseDate"
              THEN Some(<<"1", "9", "8", "4", "-", "1", "2", "-", "1", "4">>)
              ELSE Some("http://img/dune100.jpg")]),
      Item(Key1("trackName", Some("Heat"))) }

ProviderItems(media_type) ==
    (IF media_type = "anime" THEN AnimeItems
     ELSE IF media_type = "series" THEN SeriesItems
     ELSE MovieItems) \cup {JunkItem}

ItemLists(media_type) ==
    UNION {[1..n -> ProviderItems(media_type)] : n \in 0..MaxItems}

\* the text of an exception: its characters count from 1 so that a prefix
\* differs from any other part of it
Text(n) == [i \in 1..n |-> Digits[(i % 10) + 1]]

ErrorTexts ==
    {Text(n) : n \in {0, 1, ErrorTextCap - 1, ErrorTextCap, ErrorTextCap + 1,
                      ErrorTextCap + MaxErrExtra}}

JsonBodies(media_type) ==
    {[type |-> "list", key |-> "", items |-> xs] : xs \in ItemLists(media_type)}
      \cup {[type |-> "dict", key |-> k, items |-> xs] :
              k \in {"data", "results"}, xs \in ItemLists(media_type)}

\* what the outbound call yields: a JSON body (a wrong shape raises with
\* text), or a non-success status, a timeout, a network error, a body that
\* is no JSON, each raising with text
Upstreams(media_type) ==
    {[kind |-> "ok", json |-> j, text |-> Text(38)] : j \in JsonBodies(media_type)}
      \cup {[kind |-> k, json |-> <<>>, text |-> t] :
              k \in {"status", "timeout", "network", "notjson"},
              t \in ErrorTexts}

GetSearch ==
    \E q \in Queries, m \in SearchMediaTypes, l \in Limits :
        SearchRequest(q, m, l)

ProviderAnswers ==
    \E u \in Upstreams(IF pending = None THEN "movie"
                       ELSE pending[1].req.media_type) :
        SearchReturn(u)

NextSearch == GetSearch \/ ProviderAnswers

SpecSearch == Init /\ [][NextSearch]_vars

(***************************************************************************)
(* A collection that already holds one entry fewer than the default page   *)
(* of GET /entries, as DefaultLimit - 1 POST requests leave it.            *)
(***************************************************************************)
BulkDocs == DefaultLimit - 1

InitBulk ==
    /\ db = Some("nebuladiary")
    /\ docs = [i \in 1..BulkDocs |-> NewDoc(i, Entry(DuneBody))]
    /\ nextId = BulkDocs + 1
    /\ resp = NoResponse
    /\ before = docs
    /\ gone = {}
    /\ fresh = None
    /\ pending = None

PostEntriesBulk ==
    \E body \in CreateBodies :
        nextId <= BulkDocs + MaxBulkPosts /\ CreateEntry(body)

\* GET /entries with a limit parameter around the default
BulkLimits == {1, DefaultLimit, DefaultLimit + 1}

GetEntriesWithLimit ==
    \E f \in ListFilters, l \in BulkLimits : ListEntries(f[1], f[2], l)

NextBulk == PostEntriesBulk \/ GetEntriesWithLimit

SpecBulk == InitBulk /\ [][NextBulk]_vars

(***************************************************************************)
(* Properties of the entry endpoints.                                      *)
(***************************************************************************)
\* the id string names a document of the collection
InCollection(ds, id) == \E i \in 1..Len(ds) : StrOid(ds[i]["_id"]) = id

\* a PATCH body with none of status, rating, review
EffectivelyEmpty(body) ==
    body.status = None /\ body.rating = None /\ body.review = None

InRange(v, lo, hi) == v = None \/ (v[1] >= lo /\ v[1] <= hi)

C2_OutOfRangeRatingRejected ==
    (/\ resp.op = "update"
     /\ db # None
     /\ resp.req.body.rating # None
     /\ ~InRange(resp.req.body.rating, 1, 5))
        => (resp.code = 422 /\ resp.writes = <<>> /\ docs = before)

\* C3: with the store available, a DELETE of an id that is not in the
\* collection is answered not-found and leaves the collection unchanged.
C3_DeleteOfMissingIdNotFound ==
    (/\ resp.op = "delete"
     /\ db # None
     /\ ~InCollection(before, resp.req.entry_id))
        => (resp.code = 404 /\ docs = before)

\* Supporting C3: an id whose DELETE succeeded is never in the collection
\* again, and a DELETE of a well-formed id that is not in the collection is
\* answered not-found with the collection unchanged.
DeletedStaysDeleted ==
    /\ \A id \in gone : ~InCollection(docs, id)
    /\ (/\ resp.op = "delete"
        /\ db # None
        /\ ObjectId(resp.req.entry_id) # None
        /\ ~InCollection(before, resp.req.entry_id))
           => (resp.code = 404 /\ docs = before)

\* C4 as stated: a PATCH with none of status, rating, review returns
\* {updated: false}, issues no store write and leaves every record unchanged.
C4_EmptyPatchReturnsNotUpdated ==
    (resp.op = "update" /\ EffectivelyEmpty(resp.req.body))
        => (/\ resp.code = 200
            /\ resp.out = [updated |-> FALSE]
            /\ resp.writes = <<>>
            /\ docs = before)

\* C4 amended: such a PATCH issues no store write and leaves every record
\* unchanged; it returns {updated: false} when the store is available,
\* whatever the id, and the server error when it is not.
C4_EmptyPatchIsNoOp ==
    (resp.op = "update" /\ EffectivelyEmpty(resp.req.body))
        => (/\ resp.writes = <<>>
            /\ docs = before
            /\ IF db # None
               THEN resp.code = 200 /\ resp.out = [updated |-> FALSE]
               ELSE resp.code = 500)

\* an empty PATCH of an entry that is in the collection, store available
C4_Witness ==
    /\ resp.op = "update"
    /\ resp.req.body = UnknownOnlyPatch
    /\ db # None
    /\ InCollection(docs, resp.req.entry_id)
    /\ resp.code = 200

MutatingOps == {"create", "update", "delete"}

\* C6 as stated: with the store unavailable every POST, PATCH and DELETE is
\* answered with the database-unavailable server error, whatever its body.
C6_UnavailableAnswersEveryBody ==
    (db = None /\ resp.op \in MutatingOps)
        => (resp.code = 500 /\ resp.detail = "Database not available")

\* the body passed the schema of the operation
BodyPassedValidation ==
    IF resp.op = "create" THEN EntryValid(resp.req)
    ELSE IF resp.op = "update" THEN EntryUpdateValid(resp.req.body)
    ELSE TRUE

\* C6 amended: with the store unavailable every POST, PATCH and DELETE
\* whose body passes validation is answered with the database-unavailable
\* server error, an empty PATCH included; a body that fails validation is
\* answered with the validation error; no write is issued either way.
C6_UnavailableShortCircuits ==
    (db = None /\ resp.op \in MutatingOps)
        => (/\ resp.writes = <<>>
            /\ docs = before
            /\ IF BodyPassedValidation
               THEN resp.code = 500 /\ resp.detail = "Database not available"
               ELSE resp.code = 422)

\* an empty PATCH against the unavailable store
C6_Witness ==
    /\ db = None
    /\ resp.op = "update"
    /\ resp.req.body = EmptyPatch
    /\ resp.code = 500

PatchableFields == {"status", "rating", "review"}

\* the record after a PATCH with body differs from the record before only in
\* the patchable fields the body carries and in updated_at
PatchedFrom(a, b, body) ==
    /\ DOMAIN a = DOMAIN b \cup {"updated_at"}
    /\ a["updated_at"] # None
    /\ \A k \in DOMAIN b \ {"updated_at"} :
          IF k \in PatchableFields /\ body[k] # None
          THEN a[k] = body[k]
          ELSE a[k] = b[k]

\* a PATCH that succeeded changed only the record named and only as allowed
PatchFrame ==
    (resp.op = "update" /\ resp.code = 200 /\ resp.out = [updated |-> TRUE])
        => (/\ Len(docs) = Len(before)
            /\ InCollection(before, resp.req.entry_id)
            /\ \A i \in 1..Len(before) :
                  IF StrOid(before[i]["_id"]) = resp.req.entry_id
                  THEN PatchedFrom(docs[i], before[i], resp.req.body)
                  ELSE docs[i] = before[i])

\* C9: with the store available, a PATCH that succeeds changes only the
\* fields of status, rating, review its body carries and updated_at, in the
\* record named only; a PATCH with an accepted field on an id not in the
\* collection is answered not-found and changes no record.
C9_PatchFrameAndNotFound ==
    /\ PatchFrame
    /\ (/\ resp.op = "update"
        /\ db # None
        /\ EntryUpdateValid(resp.req.body)
        /\ ~EffectivelyEmpty(resp.req.body)
        /\ ~InCollection(before, resp.req.entry_id))
           => (resp.code = 404 /\ docs = before)

\* the filters of a GET /entries are none or match the payload
FiltersMatch(req, payload) ==
    /\ Truthy(req.media_type) => req.media_type = payload.media_type
    /\ Truthy(req.status) => req.status = payload.status

\* the listing holds exactly one record with the id, equal to the payload
ListedOnce(out, id, payload) ==
    LET hits == {i \in 1..Len(out) :
                    "id" \in DOMAIN out[i] /\ out[i]["id"] = id}
    IN  /\ Cardinality(hits) = 1
        /\ \A i \in hits :
              /\ "_id" \notin DOMAIN out[i]
              /\ \A k \in EntryFields : out[i][k] = payload[k]

\* the payload as the claim expects it stored: status Planned when omitted
Expected(body) ==
    [body EXCEPT !.status = IF body.status = None THEN <<"Planned">>
                            ELSE body.status]

\* C5 as stated: after a POST returned an id, a GET /entries with the
\* default limit and no filter, or filters matching the payload, holds
\* exactly one record with that id, equal to the payload with status
\* Planned when omitted, the store's _id only under the name id.
C5_CreatedEntryIsListed ==
    (/\ resp.op = "list"
     /\ resp.code = 200
     /\ fresh # None
     /\ resp.req.limit = DefaultLimit
     /\ FiltersMatch(resp.req, Expected(fresh[1].body)))
        => ListedOnce(resp.out, fresh[1].id, Expected(fresh[1].body))

\* C5 amended: the same, provided the records matching the filters are no
\* more than the limit of the GET (100 by default).
C5_CreatedEntryIsListedWithinLimit ==
    (/\ resp.op = "list"
     /\ resp.code = 200
     /\ fresh # None
     /\ FiltersMatch(resp.req, Expected(fresh[1].body))
     /\ Len(SelectSeq(docs, LAMBDA d :
              /\ Truthy(resp.req.media_type)
                    => d["media_type"] = resp.req.media_type
              /\ Truthy(resp.req.status) => d["status"] = resp.req.status))
           <= resp.req.limit)
        => ListedOnce(resp.out, fresh[1].id, Expected(fresh[1].body))

\* a GET right after the POST that filled the default page to its limit
C5_Witness ==
    /\ resp.op = "list"
    /\ resp.code = 200
    /\ fresh # None
    /\ fresh[1].body = DuneBody
    /\ resp.req.media_type = Some("movie")
    /\ Len(docs) = DefaultLimit
    /\ Len(resp.out) = DefaultLimit

(***************************************************************************)
(* Properties of the search proxy.                                         *)
(***************************************************************************)
AllWhitespace(q) == \A i \in 1..Len(q) : q[i] \in {" ", "\t", "\n"}

ProviderFor(media_type) ==
    CASE media_type = "anime" -> "jikan"
      [] media_type = "series" -> "tvmaze"
      [] media_type = "movie" -> "itunes"

\* C7: a search whose query is empty after trimming returns the empty list
\* and makes no outbound call; one with a non-empty trimmed query makes
\* exactly one outbound call, to the provider of its media_type.
C7_EmptyQueryNoCallElseOne ==
    /\ pending # None
          => (/\ ~AllWhitespace(pending[1].req.q)
              /\ pending[1].call.provider
                    = ProviderFor(pending[1].req.media_type))
    /\ (resp.op = "search" /\ resp.code # 422)
          => IF AllWhitespace(resp.req.q)
             THEN /\ resp.code = 200
                  /\ resp.out = <<>>
                  /\ resp.calls = <<>>
                  /\ resp.req.upstream = None
             ELSE /\ Len(resp.calls) = 1
                  /\ resp.calls[1].provider = ProviderFor(resp.req.media_type)

\* a whitespace-only query was answered
C7_Witness ==
    /\ resp.op = "search"
    /\ resp.req.q = <<" ", "\t">>
    /\ resp.req.media_type = "series"
    /\ resp.code = 200

\* the provider's answer is a failure: an error, or a body of the wrong shape
UpstreamFailed(req) ==
    /\ req.upstream # None
    /\ \/ req.upstream[1].kind # "ok"
       \/ req.upstream[1].json.type
             # (IF req.media_type = "series" THEN "list" ELSE "dict")

\* C8 as stated: an upstream failure yields 502 with a message of at most
\* 120 characters.
C8_FailureMessageAtMost120 ==
    (resp.op = "search" /\ UpstreamFailed(resp.req))
        => (resp.code = 502 /\ Len(resp.detail) <= 120)

\* C8 amended: an upstream failure yields 502, no search ends in an
\* unhandled fault, and the message is "Search failed: " followed by the
\* first 120 characters of the failure text: at most 135 characters.
C8_FailureMessageAtMost135 ==
    (resp.op = "search" /\ resp.req.upstream # None)
        => (/\ resp.code \in {200, 502}
            /\ UpstreamFailed(resp.req) => resp.code = 502
            /\ resp.code = 502
                  => LET text == resp.req.upstream[1].text
                         kept == IF Len(text) < 120 THEN Len(text) ELSE 120
                     IN  /\ Len(resp.detail) <= 135
                         /\ resp.detail
                               = SearchFailedPrefix
                                   \o [i \in 1..kept |-> text[i]])

\* a timeout whose text is longer than the truncation keeps
C8_Witness ==
    /\ resp.op = "search"
    /\ resp.req.upstream # None
    /\ resp.req.upstream[1].kind = "timeout"
    /\ Len(resp.req.upstream[1].text) > 120
    /\ resp.code = 502
    /\ Len(resp.detail) = 135

\* the provider's result list: the list under the provider's key, empty when
\* the answer has no such key
AnsweredItems(req) ==
    LET json == req.upstream[1].json
    IN  IF \/ req.media_type = "series"
           \/ req.media_type = "anime" /\ json.key = "data"
           \/ req.media_type = "movie" /\ json.key = "results"
        THEN json.items
        ELSE <<>>

\* C10: a successful search returns the first min(limit, n) of the n
\* provider items (none when limit is negative), in provider order, each
\* with the request's media_type and the provider's name as source.
C10_FirstMinLimitItems ==
    (resp.op = "search" /\ resp.code = 200 /\ resp.req.upstream # None)
        => LET items == AnsweredItems(resp.req)
               want == Max(0, Min(resp.req.limit, Len(items)))
           IN  /\ Len(resp.out) = want
               /\ \A i \in 1..Len(resp.out) :
                     /\ resp.out[i].media_type = resp.req.media_type
                     /\ resp.out[i].source = ProviderFor(resp.req.media_type)

(***************************************************************************)
(* Supporting facts: what does hold where a claim above fails.             *)
(***************************************************************************)
\* media_type, status and year of every stored entry stay within the schema
StoredEntriesWithinSchemaButRating ==
    \A i \in 1..Len(docs) :
        /\ docs[i]["media_type"] # None
        /\ docs[i]["media_type"][1] \in {"movie", "series", "anime"}
        /\ docs[i]["status"] # None
        /\ docs[i]["status"][1] \in {"Planned", "Watching", "Completed", "Dropped"}
        /\ InRange(docs[i]["year"], 1800, 2100)

\* a request that is answered with an error changes no record
ErrorsChangeNothing ==
    (resp.op \in MutatingOps /\ resp.code # 200) => docs = before

\* the key of the provider's native id in an item
IdKey(media_type) ==
    CASE media_type = "anime" -> "mal_id"
      [] media_type = "series" -> "show.id"
      [] media_type = "movie" -> "trackId"

\* for limit >= 0 a successful search returns the first min(limit, n)
\* provider items in provider order
NonNegativeLimitCaps ==
    (/\ resp.op = "search"
     /\ resp.code = 200
     /\ resp.req.upstream # None
     /\ resp.req.limit >= 0)
        => LET items == AnsweredItems(resp.req)
           IN  /\ Len(resp.out) = Min(resp.req.limit, Len(items))
               /\ \A i \in 1..Len(resp.out) :
                     /\ resp.out[i].media_type = resp.req.media_type
                     /\ resp.out[i].source = ProviderFor(resp.req.media_type)
                     /\ resp.out[i].external_id
                           = Str(Get(items[i].f, IdKey(resp.req.media_type)))

====
